---------------------------- MODULE Spec2Model ----------------------------
(***************************************************************************)
(* A model of the metaballs renderer (src/src/main.rs): the Field          *)
(* (MetaballData), the rasterizer (naive_impl, render_metaballs), the      *)
(* command source thread (control_stdin) and the driver's event-loop       *)
(* closure (main).                                                         *)
(*                                                                         *)
(* Numbers.  f64 is modelled as a fixed-point number with quantum          *)
(* 1/FScale, extended by +infinity, -infinity and NaN.  Negative zero is   *)
(* not distinguished from zero.  The 256x256 raster is scaled down to      *)
(* RasterDim x RasterDim; every place where the source writes 256 uses     *)
(* RasterDim.                                                              *)
(***************************************************************************)
EXTENDS Integers, Sequences, FiniteSets, TLC

(***************************************************************************)
(* Bounds of the model.                                                    *)
(***************************************************************************)
\* quantum of the fixed-point model of f64: a finite value is v / FScale
FScale == 256
\* side of the raster (256 in the source)
RasterDim == 4

(***************************************************************************)
(* f64                                                                     *)
(***************************************************************************)
Fin(n) == [k |-> "fin", v |-> n]
PosInf == [k |-> "inf", v |-> 0]
NegInf == [k |-> "ninf", v |-> 0]
NaN == [k |-> "nan", v |-> 0]

IsFin(a) == a.k = "fin"
IsNaN(a) == a.k = "nan"

Abs(n) == IF n < 0 THEN -n ELSE n
Sgn(n) == IF n < 0 THEN -1 ELSE IF n > 0 THEN 1 ELSE 0

\* largest finite magnitude of the model; a larger result overflows to infinity
FMaxV == 4096 * FScale

\* the sign of a value: -1, 0, 1 (0 also for NaN)
FSign(a) == CASE a.k = "fin" -> Sgn(a.v)
              [] a.k = "inf" -> 1
              [] a.k = "ninf" -> -1
              [] OTHER -> 0

Signed(s, a) == IF s < 0 THEN (IF a.k = "inf" THEN NegInf ELSE IF a.k = "ninf" THEN PosInf
                               ELSE IF a.k = "fin" THEN Fin(-a.v) ELSE a)
                ELSE a

\* rounding of an exact result n (in quanta) to a value
Norm(n) == IF n > FMaxV THEN PosInf ELSE IF n < -FMaxV THEN NegInf ELSE Fin(n)

\* the literal num/den, e.g. 1.6 = Lit(16, 10)
Lit(num, den) == Fin((num * FScale) \div den)
\* `n as f64`
FromInt(n) == Fin(n * FScale)

FAdd(a, b) ==
    IF IsNaN(a) \/ IsNaN(b) THEN NaN
    ELSE IF IsFin(a) /\ IsFin(b) THEN Norm(a.v + b.v)
    ELSE IF IsFin(a) THEN b
    ELSE IF IsFin(b) THEN a
    ELSE IF a.k = b.k THEN a ELSE NaN

FNeg(a) == Signed(-1, a)
FSub(a, b) == FAdd(a, FNeg(b))

FMul(a, b) ==
    IF IsNaN(a) \/ IsNaN(b) THEN NaN
    ELSE IF IsFin(a) /\ IsFin(b) THEN
        IF a.v = 0 \/ b.v = 0 THEN Fin(0)
        ELSE IF Abs(a.v) > (FMaxV * FScale) \div Abs(b.v)
             THEN Signed(Sgn(a.v) * Sgn(b.v), PosInf)
             ELSE Signed(Sgn(a.v) * Sgn(b.v), Norm((Abs(a.v) * Abs(b.v)) \div FScale))
    ELSE IF FSign(a) = 0 \/ FSign(b) = 0 THEN NaN
    ELSE Signed(FSign(a) * FSign(b), PosInf)

\* a division that gives 0 for a divisor of 0
FDivZeroGuarded(a, b) ==
    IF IsNaN(a) \/ IsNaN(b) THEN NaN
    ELSE IF IsFin(a) /\ IsFin(b) THEN
        IF b.v = 0 THEN Fin(0)
        ELSE Signed(Sgn(a.v) * Sgn(b.v), Norm((Abs(a.v) * FScale) \div Abs(b.v)))
    ELSE IF IsFin(a) THEN Fin(0)
    ELSE IF IsFin(b) THEN Signed(FSign(a) * (IF b.v < 0 THEN -1 ELSE 1), PosInf)
    ELSE NaN

FDiv(a, b) ==
    IF IsNaN(a) \/ IsNaN(b) THEN NaN
    ELSE IF IsFin(a) /\ IsFin(b) THEN
        IF b.v = 0 THEN (IF a.v = 0 THEN NaN ELSE Signed(Sgn(a.v), PosInf))
        ELSE Signed(Sgn(a.v) * Sgn(b.v), Norm((Abs(a.v) * FScale) \div Abs(b.v)))
    ELSE IF IsFin(a) THEN Fin(0)
    ELSE IF IsFin(b) THEN Signed(FSign(a) * (IF b.v < 0 THEN -1 ELSE 1), PosInf)
    ELSE NaN

\* a comparison written as the negation of a <= b: true when an operand is NaN
FGtOrUnordered(a, b) ==
    IF IsNaN(a) \/ IsNaN(b) THEN TRUE
    ELSE IF IsFin(a) /\ IsFin(b) THEN a.v > b.v
    ELSE IF a.k = "inf" THEN b.k # "inf"
    ELSE IF a.k = "ninf" THEN FALSE
    ELSE b.k = "ninf"

\* a > b: false whenever an operand is NaN
FGt(a, b) ==
    IF IsNaN(a) \/ IsNaN(b) THEN FALSE
    ELSE IF IsFin(a) /\ IsFin(b) THEN a.v > b.v
    ELSE IF a.k = "inf" THEN b.k # "inf"
    ELSE IF a.k = "ninf" THEN FALSE
    ELSE b.k = "ninf"

\* floor of the square root of a natural number below 2^30: the multiple of
\* 64 below it first, then the root itself
ISqrtFrom(n, lo) == CHOOSE r \in lo..(lo + 63) : r * r <= n /\ (r + 1) * (r + 1) > n
ISqrt(n) ==
    ISqrtFrom(n, 64 * (CHOOSE q \in 0..511 : (64 * q) * (64 * q) <= n
                                             /\ (64 * (q + 1)) * (64 * (q + 1)) > n))

FSqrt(a) ==
    CASE a.k = "nan" -> NaN
      [] a.k = "inf" -> PosInf
      [] a.k = "ninf" -> NaN
      [] OTHER -> IF a.v < 0 THEN NaN ELSE Fin(ISqrt(a.v * FScale))

\* The fractional part of log2(m / FScale), m / FScale in [1, 2), from bit
\* `bit` on, to 8 bits: the square is at least 2 exactly when the bit is set.
RECURSIVE Log2Frac(_, _)
Log2Frac(m, bit) ==
    IF bit > 8 THEN 0
    ELSE IF (m * m) \div FScale >= 2 * FScale
         THEN FScale \div 2^bit + Log2Frac((m * m) \div (2 * FScale), bit + 1)
         ELSE Log2Frac((m * m) \div FScale, bit + 1)

\* log2 of m / FScale, whose integer part is e
Log2At(m, e) == e * FScale + Log2Frac(IF e >= 0 THEN m \div 2^e ELSE m * 2^(-e), 1)

\* log2 of the positive finite value m / FScale, in quanta
Log2(m) ==
    Log2At(m, CHOOSE e \in -12..14 :
                 IF e >= 0 THEN 2^e * FScale <= m /\ m < 2^(e + 1) * FScale
                 ELSE m < FScale /\ FScale <= m * 2^(-e) /\ m * 2^(-e) < 2 * FScale)

\* 2^(1/2^i) in quanta
RECURSIVE Root2(_)
Root2(i) == IF i = 1 THEN ISqrt(2 * FScale * FScale) ELSE ISqrt(Root2(i - 1) * FScale)
Root2Table == [i \in 1..8 |-> Root2(i)]

\* 2^(f / FScale) in quanta, 0 <= f < FScale, from bit i of the fraction on
RECURSIVE Exp2Frac(_, _)
Exp2Frac(f, i) ==
    IF i > 8 THEN FScale
    ELSE IF ((f * 2^i) \div FScale) % 2 = 1
         THEN (Root2Table[i] * Exp2Frac(f, i + 1)) \div FScale
         ELSE Exp2Frac(f, i + 1)

\* r / FScale times 2^n as a value
Exp2Scale(r, n) ==
    IF n > 12 THEN PosInf
    ELSE IF n >= 0 THEN Norm(r * 2^n)
    ELSE IF n < -20 THEN Fin(0)
    ELSE Fin(r \div 2^(-n))

\* 2^(y / FScale) as a value
Exp2(y) == Exp2Scale(Exp2Frac(y % FScale, 1), y \div FScale)

\* x^n for a small natural n, by squaring
RECURSIVE PowInt(_, _)
PowInt(x, n) ==
    IF n = 0 THEN FromInt(1)
    ELSE IF n = 1 THEN x
    ELSE IF n % 2 = 0 THEN PowInt(FMul(x, x), n \div 2)
    ELSE FMul(PowInt(FMul(x, x), n \div 2), x)

IsSmallInt(y) == IsFin(y) /\ y.v % FScale = 0 /\ Abs(y.v) <= 8 * FScale

\* x.powf(y)
FPowf(x, y) ==
    IF IsFin(y) /\ y.v = 0 THEN FromInt(1)
    ELSE IF x = FromInt(1) THEN FromInt(1)
    ELSE IF IsNaN(x) \/ IsNaN(y) THEN NaN
    ELSE IF IsSmallInt(y) /\ IsFin(x) THEN
        IF y.v > 0 THEN PowInt(x, y.v \div FScale)
        ELSE FDiv(FromInt(1), PowInt(x, (-y.v) \div FScale))
    ELSE IF FSign(x) < 0 THEN NaN
    ELSE IF FSign(x) = 0 THEN (IF FSign(y) > 0 THEN Fin(0) ELSE PosInf)
    ELSE IF x.k = "inf" THEN (IF FSign(y) > 0 THEN PosInf ELSE Fin(0))
    ELSE IF y.k = "inf" THEN (IF x.v > FScale THEN PosInf ELSE Fin(0))
    ELSE IF y.k = "ninf" THEN (IF x.v > FScale THEN Fin(0) ELSE PosInf)
    ELSE Exp2((y.v * Log2(x.v)) \div FScale)

\* f64::floor
FFloor(a) == IF IsFin(a) THEN Fin((a.v \div FScale) * FScale) ELSE a

\* stands in for u32::MAX, which TLC's integers cannot hold
U32Sat == 2147483646 + 1

\* `a as u32`: truncates toward zero, saturates, NaN gives 0
F2U32(a) ==
    CASE a.k = "nan" -> 0
      [] a.k = "inf" -> U32Sat
      [] a.k = "ninf" -> 0
      [] OTHER -> IF a.v < 0 THEN 0 ELSE a.v \div FScale

\* ln 2
Ln2 == Lit(693, 1000)
\* f64::ln
FLn(a) ==
    CASE a.k = "nan" -> NaN
      [] a.k = "inf" -> PosInf
      [] a.k = "ninf" -> NaN
      [] OTHER -> IF a.v < 0 THEN NaN
                  ELSE IF a.v = 0 THEN NegInf
                  ELSE FMul(Fin(Log2(a.v)), Ln2)

(***************************************************************************)
(* Constants of the program                                                *)
(***************************************************************************)
BASE_METABALL_SIZE == FromInt(90)
\* the goo and the threshold main gives the first Field
INITIAL_GOO == Lit(16, 10)
INITIAL_THRESHOLD == Lit(5, 10)
MIN_METABALL_COUNT == 3
ON_PIXEL == <<255, 0, 0, 255>>
OFF_PIXEL == <<0, 0, 0, 255>>
CROSS_PIXEL == <<0, 0, 255, 255>>
Point(px, py) == [x |-> px, y |-> py]
CROSS == << [x |-> 0, y |-> 0], [x |-> 1, y |-> 0], [x |-> -1, y |-> 0],
            [x |-> 0, y |-> 1], [x |-> 0, y |-> -1] >>

(***************************************************************************)
(* Random generation.  rand::random::<f64>() reads the thread-local        *)
(* generator: a deterministic stream from a seed nobody chooses.  The      *)
(* model's generator has RngModulus states; state s yields the uniform     *)
(* value s / RngModulus of [0, 1) and steps to s + 1.                      *)
(***************************************************************************)
RngModulus == 4

\* the k-th state after s
RngAdvance(s, k) == (s + k) % RngModulus
\* the f64 the generator yields in state s
RandomF64(s) == Fin((s * FScale) \div RngModulus)

\* a centered_random that leaves out the half of inner
CenteredRandomUncentered(inner, random) == FMul(random, inner)

\* the assertion of centered_random
CenteredRandomInnerOk(inner) == FGt(FromInt(1), inner) /\ FGt(inner, Fin(0))
\* centered_random past its assertion, for the draw random
CenteredRandom(inner, random) == FAdd(FMul(random, inner), FDiv(inner, FromInt(2)))

\* random_exponential_distribution, for the draw random
RandomExponentialDistribution(factor, random) ==
    FDiv(FLn(FSub(FromInt(1), random)), FNeg(factor))

\* a count without the minimum
RandomCountNoMinimum(random) ==
    F2U32(FFloor(RandomExponentialDistribution(Lit(5, 10), random)))

\* random_count_metaballs, for the draw random
RandomCountMetaballs(random) ==
    F2U32(FFloor(RandomExponentialDistribution(Lit(5, 10), random))) + MIN_METABALL_COUNT

\* a round that places the metaball anywhere on the raster
NewMetaballAnywhere(width, height, s) ==
    [size |-> FMul(CenteredRandom(Lit(5, 10), RandomF64(s)), BASE_METABALL_SIZE),
     location |->
        Point(F2U32(FMul(FromInt(width), RandomF64(RngAdvance(s, 1)))),
              F2U32(FMul(FromInt(height), RandomF64(RngAdvance(s, 2)))))]

\* the metaball the i-th round of the loop of from_random pushes, the
\* generator being in state s when the round starts
NewMetaball(width, height, s) ==
    [size |-> FMul(CenteredRandom(Lit(5, 10), RandomF64(s)), BASE_METABALL_SIZE),
     location |->
        Point(F2U32(FMul(FromInt(width),
                         CenteredRandom(Lit(5, 10), RandomF64(RngAdvance(s, 1))))),
              F2U32(FMul(FromInt(height),
                         CenteredRandom(Lit(5, 10), RandomF64(RngAdvance(s, 2))))))]

\* a from_random that starts every Field from the goo of the first one
FromRandomInitialGoo(goo, threshold, width, height, s) ==
    LET count == RandomCountMetaballs(RandomF64(s))
    IN [ok |-> CenteredRandomInnerOk(Lit(5, 10)),
        data |-> [goo |-> INITIAL_GOO, width |-> width, height |-> height,
                  threshold |-> threshold,
                  metaballs |-> [i \in 1..count |->
                        NewMetaball(width, height, RngAdvance(s, 1 + 3 * (i - 1)))]],
        rng |-> RngAdvance(s, 1 + 3 * count)]

\* MetaballData::from_random with the generator in state s: the new data and
\* the generator's state afterwards; ok is false when an assertion of
\* centered_random fails
FromRandom(goo, threshold, width, height, s) ==
    LET count == RandomCountMetaballs(RandomF64(s))
    IN [ok |-> CenteredRandomInnerOk(Lit(5, 10)),
        data |-> [goo |-> goo, width |-> width, height |-> height,
                  threshold |-> threshold,
                  metaballs |-> [i \in 1..count |->
                        NewMetaball(width, height, RngAdvance(s, 1 + 3 * (i - 1)))]],
        rng |-> RngAdvance(s, 1 + 3 * count)]

(***************************************************************************)
(* The control lines.  A line is a sequence of characters.                 *)
(***************************************************************************)
Whitespace == {" ", "\n", "\r", "\t"}
DigitChars == <<"0", "1", "2", "3", "4", "5", "6", "7", "8", "9">>
IsDigit(c) == \E d \in 1..10 : DigitChars[d] = c
DigitVal(c) == (CHOOSE d \in 1..10 : DigitChars[d] = c) - 1

\* str::trim
Trim(line) ==
    LET keep == {i \in 1..Len(line) : line[i] \notin Whitespace}
    IN IF keep = {} THEN <<>>
       ELSE LET lo == CHOOSE i \in keep : \A j \in keep : i <= j
                hi == CHOOSE i \in keep : \A j \in keep : i >= j
            IN SubSeq(line, lo, hi)

Lower(c) ==
    CASE c = "I" -> "i" [] c = "N" -> "n" [] c = "F" -> "f"
      [] c = "A" -> "a" [] c = "T" -> "t" [] c = "Y" -> "y"
      [] OTHER -> c

\* the end of the run of digits of str that starts at i: the index after it
DigitsEnd(str, i) ==
    IF \E j \in i..Len(str) : ~IsDigit(str[j])
    THEN CHOOSE j \in i..Len(str) : ~IsDigit(str[j]) /\ \A l \in i..(j - 1) : IsDigit(str[l])
    ELSE Len(str) + 1

\* the number the digits str[i..j-1] write (0 for no digit)
RECURSIVE DigitsValue(_, _, _)
DigitsValue(str, i, j) ==
    IF j <= i THEN 0 ELSE 10 * DigitsValue(str, i, j - 1) + DigitVal(str[j - 1])

\* the value of num / den times 10^expVal (or 10^-expVal)
DecimalValue(num, den, expVal, expNeg) ==
    IF expNeg THEN Norm((num * FScale) \div (den * 10^expVal))
    ELSE Norm((num * 10^expVal * FScale) \div den)

ParseFloatError == [ok |-> FALSE, val |-> NaN]

\* the digits of the exponent, from start to the end of body
ParseExpDigits(body, num, den, start, expNeg) ==
    IF start > Len(body) \/ DigitsEnd(body, start) # Len(body) + 1 THEN ParseFloatError
    ELSE [ok |-> TRUE,
          val |-> DecimalValue(num, den, DigitsValue(body, start, Len(body) + 1), expNeg)]

\* what follows the mantissa num / den, which ends before index at: nothing,
\* or an exponent
ParseExponent(body, num, den, at) ==
    IF at = Len(body) + 1 THEN [ok |-> TRUE, val |-> DecimalValue(num, den, 0, FALSE)]
    ELSE IF body[at] \notin {"e", "E"} THEN ParseFloatError
    ELSE IF at + 1 <= Len(body) /\ body[at + 1] \in {"+", "-"}
         THEN ParseExpDigits(body, num, den, at + 2, body[at + 1] = "-")
         ELSE ParseExpDigits(body, num, den, at + 1, FALSE)

\* the mantissa: integer digits up to intEnd, fraction digits from fracStart
\* up to fracEnd; at least one digit in all
ParseMantissa(body, intEnd, fracStart, fracEnd) ==
    IF (intEnd - 1) + (fracEnd - fracStart) = 0 THEN ParseFloatError
    ELSE ParseExponent(body,
                       DigitsValue(body, 1, intEnd) * 10^(fracEnd - fracStart)
                           + DigitsValue(body, fracStart, fracEnd),
                       10^(fracEnd - fracStart),
                       fracEnd)

\* a decimal number whose integer digits end before intEnd
ParseDecimal(body, intEnd) ==
    IF intEnd <= Len(body) /\ body[intEnd] = "."
    THEN ParseMantissa(body, intEnd, intEnd + 1, DigitsEnd(body, intEnd + 1))
    ELSE ParseMantissa(body, intEnd, intEnd, intEnd)

\* the magnitude after the sign: inf, infinity or nan in any case, or a
\* decimal number
ParseMagnitude(body, word) ==
    IF word \in {<<"i", "n", "f">>, <<"i", "n", "f", "i", "n", "i", "t", "y">>}
    THEN [ok |-> TRUE, val |-> PosInf]
    ELSE IF word = <<"n", "a", "n">> THEN [ok |-> TRUE, val |-> NaN]
    ELSE ParseDecimal(body, DigitsEnd(body, 1))

\* the sign put on a parsed magnitude
ParseSigned(neg, parsed) ==
    IF parsed.ok /\ neg THEN [ok |-> TRUE, val |-> FNeg(parsed.val)] ELSE parsed

\* the magnitude body under the sign neg
ParseBody(neg, body) ==
    ParseSigned(neg, ParseMagnitude(body, [i \in 1..Len(body) |-> Lower(body[i])]))

\* f64::from_str: an optional sign, then the magnitude
ParseF64(str) ==
    IF Len(str) > 0 /\ str[1] \in {"+", "-"}
    THEN ParseBody(str[1] = "-", SubSeq(str, 2, Len(str)))
    ELSE ParseBody(FALSE, str)

\* ControlCommand
Goo(val) == [cmd |-> "Goo", val |-> val]
Threshold(val) == [cmd |-> "Threshold", val |-> val]

\* arms that fall back on the default float when the rest does not parse
ParseCommandOrDefault(selector, parsed) ==
    IF selector = "g"
    THEN [skip |-> FALSE, send |-> <<Goo(IF parsed.ok THEN parsed.val ELSE Fin(0))>>,
          out |-> <<>>]
    ELSE [skip |-> FALSE, send |-> <<Threshold(IF parsed.ok THEN parsed.val ELSE Fin(0))>>,
          out |-> <<>>]

\* the arms 'g' and 't' of the match on the first character, the rest of the
\* line being parsed
ParseCommand(selector, parsed) ==
    IF ~parsed.ok
    THEN [skip |-> FALSE, send |-> <<>>, out |-> <<"Unable to parse to float">>]
    ELSE IF selector = "g"
         THEN [skip |-> FALSE, send |-> <<Goo(parsed.val)>>, out |-> <<>>]
         ELSE [skip |-> FALSE, send |-> <<Threshold(parsed.val)>>, out |-> <<>>]

\* the trimmed line: the blank line is skipped without being cleared
ParseTrimmed(line) ==
    IF line = <<>> THEN [skip |-> TRUE, send |-> <<>>, out |-> <<>>]
    ELSE IF line[1] \in {"g", "t"}
         THEN ParseCommand(line[1], ParseF64(SubSeq(line, 2, Len(line))))
         ELSE [skip |-> FALSE, send |-> <<>>, out |-> <<"Unknown command.">>]

\* The body of the loop of control_stdin once a line is in linebuf: what is
\* sent on the channel (at most one command) and what is printed.
ParseLine(buf) == ParseTrimmed(Trim(buf))

(***************************************************************************)
(* Bounds of the run                                                       *)
(***************************************************************************)
\* most commands the channel holds before the producer is held back
MaxChan == 2
\* most characters of blank lines left in linebuf
MaxLineBuf == 1

\* the lines stdin may deliver
InputLines ==
    { <<"g", "2", "\n">>,
      <<"t", "4", "0", "\n">>,
      <<" ", "g", "2", "\n">>,
      <<"x", "a", "b", "c", "\n">>,
      <<"t", "\n">>,
      <<"g", "1", ".", "x", "\n">>,
      <<"\n">> }

(***************************************************************************)
(* Geometry and the rasterizer                                             *)
(***************************************************************************)
\* Point::distance
Distance(self, other) ==
    FSqrt(FAdd(FPowf(FSub(FromInt(self.x), FromInt(other.x)), FromInt(2)),
               FPowf(FSub(FromInt(self.y), FromInt(other.y)), FromInt(2))))

\* the fold of math_func over the first i metaballs
RECURSIVE FoldSum(_, _, _)
FoldSum(metaball_data, p, i) ==
    IF i = 0 THEN Fin(0)
    ELSE LET metaball == metaball_data.metaballs[i]
             numerator == metaball.size
             denominator == FPowf(Distance(metaball.location, p), metaball_data.goo)
         IN FAdd(FoldSum(metaball_data, p, i - 1), FDiv(numerator, denominator))

\* a math_func that also draws the pixel when the sum equals the threshold
MathFuncOrEqual(metaball_data, px, py) ==
    LET sum == FoldSum(metaball_data, Point(px, py), Len(metaball_data.metaballs))
    IN FGt(sum, metaball_data.threshold) \/ sum = metaball_data.threshold

\* the closure math_func of naive_impl
MathFunc(metaball_data, px, py) ==
    FGt(FoldSum(metaball_data, Point(px, py), Len(metaball_data.metaballs)),
        metaball_data.threshold)

\* naive_impl: ImageBuffer::from_fn, an image [width, height, raw] whose raw
\* data holds the pixels row by row, each an RGBA quadruple of bytes
NaiveImpl(width, height, metaball_data) ==
    [width |-> width, height |-> height,
     raw |-> [i \in 1..(width * height) |->
                 IF MathFunc(metaball_data, (i - 1) % width, (i - 1) \div width)
                 THEN ON_PIXEL ELSE OFF_PIXEL]]

\* loops that mark the location of each ball only
CrossTargetsCenterOnly(metaballs) ==
    { <<metaballs[i].location.x, metaballs[i].location.y>> : i \in 1..Len(metaballs) }

\* The pixels the loops over the balls and over CROSS assign, as i64 pairs
\* before the cast to u32.
CrossTargets(metaballs) ==
    { <<metaballs[i].location.x + CROSS[j].x, metaballs[i].location.y + CROSS[j].y>> :
        i \in 1..Len(metaballs), j \in 1..Len(CROSS) }

\* ImageBuffer::get_pixel_mut panics when the pixel is out of bounds.  A
\* negative i64 cast to u32 wraps to a value of at least 2^31, beyond every
\* raster, so (cx as u32, cy as u32) is in bounds exactly when
\* 0 <= cx < width and 0 <= cy < height.
InBounds(img, t) == t[1] >= 0 /\ t[1] < img.width /\ t[2] >= 0 /\ t[2] < img.height

\* The center point indicators drawn on the local image: every target gets
\* the same colour, so the order of the assignments does not show; the first
\* out-of-bounds target panics and the local image is dropped.
DrawCrosses(img, metaballs) ==
    LET targets == CrossTargets(metaballs)
    IN IF \E t \in targets : ~InBounds(img, t) THEN [ok |-> FALSE, img |-> img]
       ELSE [ok |-> TRUE,
             img |-> [img EXCEPT !.raw =
                        [i \in 1..Len(img.raw) |->
                            IF <<(i - 1) % img.width, (i - 1) \div img.width>> \in targets
                            THEN CROSS_PIXEL ELSE img.raw[i]]]]

\* The values the control lines of the run can set, and the Fields the run
\* can therefore hold.
Range(seq) == { seq[i] : i \in 1..Len(seq) }
RunCommands == UNION { Range(ParseLine(l).send) : l \in InputLines }
RunValues(cmd, initial) ==
    {initial} \cup { c.val : c \in { cc \in RunCommands : cc.cmd = cmd } }
RunFields ==
    { FromRandom(g, t, RasterDim, RasterDim, s).data :
        g \in RunValues("Goo", INITIAL_GOO),
        t \in RunValues("Threshold", INITIAL_THRESHOLD),
        s \in 0..(RngModulus - 1) }

\* naive_impl(256, 256, ..) of the Fields of the run, computed once
BaseImages == [md \in RunFields |-> NaiveImpl(RasterDim, RasterDim, md)]

\* table[key] where the table has it, the value computed on the spot elsewhere
LookUp(table, key, computed) == IF key \in DOMAIN table THEN table[key] ELSE computed

\* naive_impl(256, 256, metaballs)
BaseImage(metaballs) ==
    LookUp(BaseImages, metaballs, NaiveImpl(RasterDim, RasterDim, metaballs))

\* render_metaballs up to the copy: the local image meta, or a panic
RenderMeta(metaballs, opts) ==
    LET meta == BaseImage(metaballs)
    IN IF opts.crosses THEN DrawCrosses(meta, metaballs.metaballs)
       ELSE [ok |-> TRUE, img |-> meta]

\* a copy that leaves the center indicators of the destination in place
CopyKeepingCrosses(dst, src) ==
    IF Len(dst) # Len(src) THEN [ok |-> FALSE, buf |-> dst]
    ELSE [ok |-> TRUE,
          buf |-> [i \in 1..Len(src) |-> IF dst[i] = CROSS_PIXEL THEN dst[i] ELSE src[i]]]

\* a copy that writes what fits before it panics on differing lengths
CopyPrefix(dst, src) ==
    IF Len(dst) # Len(src)
    THEN [ok |-> FALSE,
          buf |-> [i \in 1..Len(dst) |-> IF i <= Len(src) THEN src[i] ELSE dst[i]]]
    ELSE [ok |-> TRUE, buf |-> src]

\* a copy that leaves the pixels of the destination that are on as they are
CopyKeepingOn(dst, src) ==
    IF Len(dst) # Len(src) THEN [ok |-> FALSE, buf |-> dst]
    ELSE [ok |-> TRUE,
          buf |-> [i \in 1..Len(src) |-> IF dst[i] = ON_PIXEL THEN dst[i] ELSE src[i]]]

\* <[u8]>::copy_from_slice: panics, writing nothing, when the lengths differ
CopyFromSlice(dst, src) ==
    IF Len(dst) # Len(src) THEN [ok |-> FALSE, buf |-> dst]
    ELSE [ok |-> TRUE, buf |-> src]

\* render_metaballs as a whole
RenderMetaballs(screenbuffer, metaballs, opts) ==
    LET meta == RenderMeta(metaballs, opts)
    IN IF ~meta.ok THEN [ok |-> FALSE, buf |-> screenbuffer]
       ELSE CopyFromSlice(screenbuffer, meta.img.raw)

(***************************************************************************)
(* The state                                                               *)
(***************************************************************************)
VARIABLES
    metadata,       \* main: the MetaballData
    render_opts,    \* main: the RenderOpts
    frame,          \* pix.get_frame(): the screen buffer, a sequence of RGBA pixels
    meta,           \* render_metaballs: the local image while a call is in flight
    pc,             \* where the driver stands in the closure of event_loop.run
    event,          \* the event the closure was called with, and the keys
                    \* WinitInputHelper reports for it
    exitRequested,  \* *control_flow = ControlFlow::Exit has been set
    proc,           \* the process: "running", "exited" or "panicked"
    exitCode,       \* its exit status once it is not running
    trace,          \* what the closure printed, received and rendered in this call
    chan,           \* the mpsc channel: the commands sent and not yet received
    stdin,          \* the command source thread: "open", or "panicked" (tx dropped)
    linebuf,        \* control_stdin: linebuf between two rounds of its loop
    source_out,     \* what control_stdin printed for the last line it read
    rng,            \* the state of the main thread's random generator
    overlayBase,    \* history: the frame before crosses was switched on
    firstFrame      \* history: the frame the first of a series of renders left

vars == <<metadata, render_opts, frame, meta, pc, event, exitRequested, proc, exitCode,
          trace, chan, stdin, linebuf, source_out, rng, overlayBase, firstFrame>>

driverVars == <<metadata, render_opts, frame, meta, pc, event, exitRequested, proc,
                exitCode, trace, rng, overlayBase, firstFrame>>

NoEvent == [kind |-> "none", space |-> FALSE, c |-> FALSE]
NoMeta == [ok |-> TRUE, img |-> [width |-> 0, height |-> 0, raw |-> <<>>]]
NoFrame == <<>>

\* the events the closure is called with; MainEventsCleared comes with the
\* keys pressed since the last NewEvents
Events ==
    { [kind |-> k, space |-> FALSE, c |-> FALSE] :
        k \in {"CloseRequested", "RedrawRequested", "Other"} }
    \cup { [kind |-> "MainEventsCleared", space |-> sp, c |-> cc] : sp, cc \in BOOLEAN }

\* exit status of std::process::exit(-1) and of a panic of the main thread
ExitHungUp == 255
ExitPanic == 101

\* the frame a fresh PixelsBuilder::new(256, 256, ..) hands out
BlankFrame == [i \in 1..(RasterDim * RasterDim) |-> <<0, 0, 0, 0>>]

(***************************************************************************)
(* main up to event_loop.run: the channel, the thread, the first Field     *)
(* and its render.                                                         *)
(***************************************************************************)
Init ==
    \E seed \in 0..(RngModulus - 1) :
        LET gen == FromRandom(INITIAL_GOO, INITIAL_THRESHOLD, RasterDim, RasterDim, seed)
        IN /\ metadata = gen.data
           /\ rng = gen.rng
           /\ render_opts = [crosses |-> FALSE]
           /\ frame = RenderMetaballs(BlankFrame, gen.data, [crosses |-> FALSE]).buf
           /\ meta = NoMeta
           /\ pc = "wait"
           /\ event = NoEvent
           /\ exitRequested = FALSE
           /\ proc = "running"
           /\ exitCode = 0
           /\ trace = <<>>
           /\ chan = <<>>
           /\ stdin = "open"
           /\ linebuf = <<>>
           /\ source_out = <<>>
           /\ overlayBase = NoFrame
           /\ firstFrame = NoFrame

(***************************************************************************)
(* The command source thread: one round of the loop of control_stdin       *)
(***************************************************************************)
\* a command source that holds the Field and assigns the value itself
StdinLineWritesField(l) ==
    LET buf == linebuf \o l
        r == ParseLine(buf)
    IN /\ proc = "running"
       /\ stdin = "open"
       /\ r.skip => Len(buf) <= MaxLineBuf
       /\ metadata' = IF r.send = <<>> THEN metadata
                      ELSE IF r.send[1].cmd = "Goo"
                           THEN [metadata EXCEPT !.goo = r.send[1].val]
                           ELSE [metadata EXCEPT !.threshold = r.send[1].val]
       /\ linebuf' = IF r.skip THEN buf ELSE <<>>
       /\ source_out' = r.out
       /\ UNCHANGED <<chan, stdin, render_opts, frame, meta, pc, event, exitRequested,
                      proc, exitCode, trace, rng, overlayBase, firstFrame>>

\* read_line delivers the line l
StdinLineOf(l) ==
    LET buf == linebuf \o l
        r == ParseLine(buf)
    IN /\ proc = "running"
       /\ stdin = "open"
       /\ Len(chan) + Len(r.send) <= MaxChan
       /\ r.skip => Len(buf) <= MaxLineBuf
       /\ chan' = chan \o r.send
       /\ linebuf' = IF r.skip THEN buf ELSE <<>>
       /\ source_out' = r.out
       /\ UNCHANGED <<stdin, driverVars>>

StdinLine == \E l \in InputLines : StdinLineOf(l)

\* read_line returns Ok(0) at the end of the input: linebuf gets nothing,
\* trims to the empty line, and the loop goes round with nothing changed.
\* (A terminal may deliver lines after that; a file or a pipe delivers Ok(0)
\* ever after.)
StdinEof ==
    /\ proc = "running"
    /\ stdin = "open"
    /\ ParseLine(linebuf).skip
    /\ UNCHANGED vars

\* read_line returns Err (input that is not UTF-8, a failing read): unwrap
\* panics, the thread ends and tx is dropped
StdinReadError ==
    /\ proc = "running"
    /\ stdin = "open"
    /\ stdin' = "panicked"
    /\ UNCHANGED <<chan, linebuf, source_out, driverVars>>

(***************************************************************************)
(* The driver: the closure of event_loop.run                               *)
(***************************************************************************)
\* where the closure goes when its last statement is done
EndOfCall(ev) == IF ev.kind = "LoopDestroyed" THEN "done" ELSE "wait"

\* the closure returns: the loop waits for the next event, or, after
\* LoopDestroyed, run() ends the process
Return ==
    /\ pc' = EndOfCall(event)
    /\ event' = NoEvent
    /\ proc' = IF event.kind = "LoopDestroyed" THEN "exited" ELSE proc
    /\ exitCode' = IF event.kind = "LoopDestroyed" THEN 0 ELSE exitCode

\* the closure is called with an event: the match on the event
HandleEvent ==
    /\ proc = "running"
    /\ pc = "wait"
    /\ \E ev \in Events \cup {[kind |-> "LoopDestroyed", space |-> FALSE, c |-> FALSE]} :
        /\ exitRequested <=> ev.kind = "LoopDestroyed"
        /\ event' = ev
        /\ exitRequested' = (exitRequested \/ ev.kind = "CloseRequested")
        /\ trace' = IF ev.kind = "RedrawRequested" THEN <<<<"pix.render">>>> ELSE <<>>
    /\ pc' = "try_recv"
    /\ UNCHANGED <<metadata, render_opts, frame, meta, proc, exitCode, rng, overlayBase,
                   firstFrame, chan, stdin, linebuf, source_out>>

\* an assignment that takes every command for a goo
ApplyCommandAsGoo(md, command) == [md EXCEPT !.goo = command.val]

\* the assignment a received command makes
ApplyCommand(md, command) ==
    IF command.cmd = "Goo" THEN [md EXCEPT !.goo = command.val]
    ELSE [md EXCEPT !.threshold = command.val]

\* a closure that applies the command and goes on without rendering
AfterCommandNoRender == "input_update"

\* where the closure goes after a command is applied
AfterCommand == "render_208"

\* a closure that takes the newest command of the channel
ReceivedNewest ==
    /\ metadata' = ApplyCommand(metadata, chan[Len(chan)])
    /\ chan' = SubSeq(chan, 1, Len(chan) - 1)
    /\ trace' = trace \o << <<"recv", chan[Len(chan)]>>,
                            <<"println", "Set", chan[Len(chan)].cmd, chan[Len(chan)].val>> >>
    /\ pc' = AfterCommand
    /\ overlayBase' = NoFrame
    /\ UNCHANGED <<proc, exitCode>>

\* Ok(command): the command is applied and reported, and the Field is
\* rendered
Received ==
    /\ metadata' = ApplyCommand(metadata, Head(chan))
    /\ chan' = Tail(chan)
    /\ trace' = trace \o << <<"recv", Head(chan)>>,
                            <<"println", "Set", Head(chan).cmd, Head(chan).val>> >>
    /\ pc' = AfterCommand
    /\ overlayBase' = NoFrame
    /\ UNCHANGED <<proc, exitCode>>

\* a closure that takes Disconnected for Empty
HungUpIgnored ==
    /\ pc' = "input_update"
    /\ UNCHANGED <<metadata, chan, trace, proc, exitCode, overlayBase>>

\* Err(TryRecvError::Disconnected): the report and std::process::exit(-1)
HungUp ==
    /\ trace' = Append(trace, <<"println", "STDIN hung up!">>)
    /\ proc' = "exited"
    /\ exitCode' = ExitHungUp
    /\ pc' = "done"
    /\ UNCHANGED <<metadata, chan, overlayBase>>

\* a closure that waits for a command with rx.recv()
TryRecvBlocking ==
    /\ proc = "running"
    /\ pc = "try_recv"
    /\ IF chan # <<>> THEN Received
       ELSE /\ stdin = "panicked"
            /\ HungUp
    /\ UNCHANGED <<render_opts, frame, meta, event, exitRequested, rng, firstFrame,
                   stdin, linebuf, source_out>>

\* rx.try_recv(): a queued command first; Empty while the sender lives,
\* Disconnected once it is dropped
TryRecv ==
    /\ proc = "running"
    /\ pc = "try_recv"
    /\ IF chan # <<>> THEN Received
       ELSE IF stdin # "panicked" THEN
            /\ pc' = "input_update"
            /\ UNCHANGED <<metadata, chan, trace, proc, exitCode, overlayBase>>
       ELSE HungUp
    /\ UNCHANGED <<render_opts, frame, meta, event, exitRequested, rng, firstFrame,
                   stdin, linebuf, source_out>>

RenderSites == {"208", "227", "234"}
CallPc(site) == "render_" \o site
CopyPc(site) == "copy_" \o site

\* render_metaballs is entered: the base image and the center indicators are
\* drawn on the local image
RenderEnter ==
    /\ proc = "running"
    /\ \E site \in RenderSites :
        /\ pc = CallPc(site)
        /\ LET m == RenderMeta(metadata, render_opts)
           IN /\ meta' = m
              /\ trace' = Append(trace, <<"render", site>>)
              /\ IF m.ok THEN /\ pc' = CopyPc(site)
                              /\ UNCHANGED <<proc, exitCode>>
                 ELSE /\ pc' = "done"
                      /\ proc' = "panicked"
                      /\ exitCode' = ExitPanic
    /\ UNCHANGED <<metadata, render_opts, frame, event, exitRequested, rng, overlayBase,
                   firstFrame, chan, stdin, linebuf, source_out>>

\* the copy into the screen buffer, and the return to the caller
RenderReturn ==
    /\ proc = "running"
    /\ \E site \in RenderSites :
        /\ pc = CopyPc(site)
        /\ LET r == CopyFromSlice(frame, meta.img.raw)
           IN /\ frame' = r.buf
              /\ meta' = NoMeta
              /\ IF ~r.ok THEN /\ pc' = "done"
                               /\ proc' = "panicked"
                               /\ exitCode' = ExitPanic
                               /\ UNCHANGED event
                 ELSE IF site = "208" THEN /\ pc' = "input_update"
                                           /\ UNCHANGED <<event, proc, exitCode>>
                 ELSE IF site = "227" THEN /\ pc' = "toggle_check"
                                           /\ UNCHANGED <<event, proc, exitCode>>
                 ELSE Return
    /\ UNCHANGED <<metadata, render_opts, exitRequested, trace, rng, overlayBase,
                   firstFrame, chan, stdin, linebuf, source_out>>

\* WinitInputHelper::update: true for MainEventsCleared only
InputUpdate(ev) == ev.kind = "MainEventsCleared"

\* if input.update(&event), and the randomizing control
InputCheck ==
    /\ proc = "running"
    /\ pc = "input_update"
    /\ IF ~InputUpdate(event) THEN
            /\ Return
            /\ UNCHANGED <<metadata, rng, trace, overlayBase>>
       ELSE IF event.space THEN
            LET gen == FromRandom(metadata.goo, metadata.threshold, metadata.width,
                                  metadata.height, rng)
            IN /\ trace' = Append(trace, <<"println", "randomizing">>)
               /\ rng' = gen.rng
               /\ overlayBase' = NoFrame
               /\ UNCHANGED event
               /\ IF gen.ok THEN /\ metadata' = gen.data
                                 /\ pc' = "render_227"
                                 /\ UNCHANGED <<proc, exitCode>>
                  ELSE /\ pc' = "done"
                       /\ proc' = "panicked"
                       /\ exitCode' = ExitPanic
                       /\ UNCHANGED metadata
       ELSE /\ pc' = "toggle_check"
            /\ UNCHANGED <<metadata, rng, trace, overlayBase, event, proc, exitCode>>
    /\ UNCHANGED <<render_opts, frame, meta, exitRequested, firstFrame, chan, stdin,
                   linebuf, source_out>>

\* a center indicator control that flips the option and does not render
ToggleCheckNoRender ==
    /\ proc = "running"
    /\ pc = "toggle_check"
    /\ IF event.c THEN
            /\ trace' = Append(trace, <<"println", "crosses toggled">>)
            /\ render_opts' = [render_opts EXCEPT !.crosses = ~render_opts.crosses]
            /\ overlayBase' = IF ~render_opts.crosses THEN frame ELSE overlayBase
            /\ Return
       ELSE /\ Return
            /\ UNCHANGED <<trace, render_opts, overlayBase>>
    /\ UNCHANGED <<metadata, frame, meta, exitRequested, rng, firstFrame, chan, stdin,
                   linebuf, source_out>>

\* the center indicator control, and the closing request_redraw
ToggleCheck ==
    /\ proc = "running"
    /\ pc = "toggle_check"
    /\ IF event.c THEN
            /\ trace' = Append(trace, <<"println", "crosses toggled">>)
            /\ render_opts' = [render_opts EXCEPT !.crosses = ~render_opts.crosses]
            /\ overlayBase' = IF ~render_opts.crosses THEN frame ELSE overlayBase
            /\ pc' = "render_234"
            /\ UNCHANGED <<event, proc, exitCode>>
       ELSE /\ Return
            /\ UNCHANGED <<trace, render_opts, overlayBase>>
    /\ UNCHANGED <<metadata, frame, meta, exitRequested, rng, firstFrame, chan, stdin,
                   linebuf, source_out>>

Next ==
    \/ StdinLine
    \/ StdinEof
    \/ StdinReadError
    \/ HandleEvent
    \/ TryRecv
    \/ RenderEnter
    \/ RenderReturn
    \/ InputCheck
    \/ ToggleCheck

Spec == Init /\ [][Next]_vars

\* The main thread runs: a call of the closure that has come to rx.try_recv()
\* makes that call.  (Whether the closure is called again is up to the window
\* system and its events, and is not assumed.)
FairSpec == Spec /\ WF_vars(TryRecv)

(***************************************************************************)
(* render_metaballs on its own: a caller that hands it a Field, RenderOpts *)
(* and a screen buffer of its choosing (the call of line 208), and calls   *)
(* it again for the same Field and RenderOpts with a buffer of its         *)
(* choosing.  The Fields include sources on the edge of the raster and     *)
(* beyond it, the buffers one of the wrong length.                         *)
(***************************************************************************)
\* most calls the caller makes
MaxCalls == 2

CallerLocations ==
    { Point(0, 0), Point(1, 1), Point(RasterDim - 1, 1), Point(RasterDim, RasterDim) }
CallerFields ==
    { [goo |-> g, threshold |-> FromInt(40), width |-> RasterDim, height |-> RasterDim,
       metaballs |-> << [size |-> FMul(Lit(5, 10), BASE_METABALL_SIZE), location |-> l1],
                        [size |-> FMul(Lit(5, 10), BASE_METABALL_SIZE), location |-> l2] >>] :
        g \in {INITIAL_GOO, FromInt(2)}, l1 \in CallerLocations, l2 \in CallerLocations }
CallerFrames ==
    { BlankFrame,
      [i \in 1..(RasterDim * RasterDim) |-> ON_PIXEL],
      [i \in 1..(RasterDim * RasterDim) |-> CROSS_PIXEL],
      [i \in 1..(RasterDim * RasterDim - 1) |-> ON_PIXEL] }

RenderInit ==
    /\ metadata \in CallerFields
    /\ render_opts \in { [crosses |-> b] : b \in BOOLEAN }
    /\ frame \in CallerFrames
    /\ meta = NoMeta
    /\ pc = CallPc("208")
    /\ event = NoEvent
    /\ exitRequested = FALSE
    /\ proc = "running"
    /\ exitCode = 0
    /\ trace = <<>>
    /\ chan = <<>>
    /\ stdin = "open"
    /\ linebuf = <<>>
    /\ source_out = <<>>
    /\ rng = 0
    /\ overlayBase = NoFrame
    /\ firstFrame = NoFrame

\* the call has returned: the caller notes the buffer the first call left,
\* puts what it likes in the buffer and calls again
CallAgain ==
    /\ proc = "running"
    /\ pc = "input_update"
    /\ Len(trace) < MaxCalls
    /\ firstFrame' = IF firstFrame = NoFrame THEN frame ELSE firstFrame
    /\ frame' \in CallerFrames
    /\ pc' = CallPc("208")
    /\ UNCHANGED <<metadata, render_opts, meta, event, exitRequested, proc, exitCode,
                   trace, chan, stdin, linebuf, source_out, rng, overlayBase>>

RenderNext ==
    \/ RenderEnter
    \/ RenderReturn
    \/ CallAgain

RenderSpec == RenderInit /\ [][RenderNext]_vars

(***************************************************************************)
(* naive_impl on its own: a caller renders, without center indicators, a   *)
(* Field of one or two sources with sizes above, at and below zero, on     *)
(* pixels of the raster and beyond it, for exponents and thresholds of     *)
(* every kind of f64.                                                      *)
(***************************************************************************)
\* the pixel in the middle of the raster
Center == Point(RasterDim \div 2, RasterDim \div 2)

\* the size centered_random(0.5) * BASE_METABALL_SIZE for the middle draw
CenterSize == FMul(Lit(5, 10), BASE_METABALL_SIZE)

ProbeSizes == { CenterSize, Fin(0), FNeg(CenterSize) }
ProbeLocations == { Center, Point(0, 0), Point(RasterDim, RasterDim) }
ProbeSources == { [size |-> sz, location |-> l] : sz \in ProbeSizes, l \in ProbeLocations }
ProbeGoos == { FromInt(2), INITIAL_GOO, Fin(0), FromInt(-1) }
ProbeThresholds ==
    { FSub(CenterSize, Fin(1)), CenterSize, FAdd(CenterSize, FromInt(1)), Fin(0),
      PosInf, NaN }
ProbeFields ==
    { [goo |-> g, threshold |-> t, width |-> RasterDim, height |-> RasterDim,
       metaballs |-> m] :
        g \in ProbeGoos, t \in ProbeThresholds,
        m \in { <<a>> : a \in ProbeSources }
               \cup { <<a, b>> : a \in ProbeSources, b \in ProbeSources } }

PixelInit ==
    /\ metadata \in ProbeFields
    /\ render_opts = [crosses |-> FALSE]
    /\ frame = BlankFrame
    /\ meta = NoMeta
    /\ pc = CallPc("208")
    /\ event = NoEvent
    /\ exitRequested = FALSE
    /\ proc = "running"
    /\ exitCode = 0
    /\ trace = <<>>
    /\ chan = <<>>
    /\ stdin = "open"
    /\ linebuf = <<>>
    /\ source_out = <<>>
    /\ rng = 0
    /\ overlayBase = NoFrame
    /\ firstFrame = NoFrame

PixelNext ==
    \/ RenderEnter
    \/ RenderReturn

PixelSpec == PixelInit /\ [][PixelNext]_vars

(***************************************************************************)
(* The properties                                                          *)
(***************************************************************************)
\* the entries of trace for the commands received in this call of the
\* closure, and for the calls of render_metaballs at line 208
RecvEntries == { i \in 1..Len(trace) : trace[i][1] = "recv" }
CommandRenders == { i \in 1..Len(trace) : trace[i] = <<"render", "208">> }

\* C1: every command the driver receives from the channel is applied to the
\* Field and causes exactly one call of render_metaballs for that command.
\* A call of the closure receives at most one command; the Field holds the
\* value received; the call for the command is still to come when the
\* closure stands before line 208, and has been made exactly once from then
\* on, after the command was received.
C1_OneRenderPerCommand ==
    /\ Cardinality(RecvEntries) <= 1
    /\ \A i \in RecvEntries :
        /\ trace[i][2].cmd = "Goo" => metadata.goo = trace[i][2].val
        /\ trace[i][2].cmd = "Threshold" => metadata.threshold = trace[i][2].val
    /\ pc = "render_208" => Cardinality(RecvEntries) = 1 /\ CommandRenders = {}
    /\ pc # "render_208" => Cardinality(CommandRenders) = Cardinality(RecvEntries)
    /\ \A j \in CommandRenders : \E i \in RecvEntries : i < j

\* a call of the closure has ended that received a command and rendered for it
C1_Witness ==
    /\ pc = "wait"
    /\ Cardinality(RecvEntries) = 1
    /\ Cardinality(CommandRenders) = 1

\* what the rest of a trimmed line after its first character parses to
RestOf(line) == ParseF64(SubSeq(line, 2, Len(line)))
\* the lines the specification calls invalid: the first character is neither 'g' nor
\* 't', or the rest does not parse as a float
BadLines ==
    { l \in InputLines :
        LET t == Trim(l) IN t # <<>> /\ (t[1] \notin {"g", "t"} \/ ~RestOf(t).ok) }
\* the lines that carry a command
ValidLines ==
    { l \in InputLines :
        LET t == Trim(l) IN t # <<>> /\ t[1] \in {"g", "t"} /\ RestOf(t).ok }
\* a step of the command source thread leaves the driver where it stands
SourceStep == pc' = pc

\* C2, as amended: a control line that, trimmed of the white space around
\* it, starts with a character that is neither 'g' nor 't', or has a rest
\* that does not parse as a float, emits no command, leaves the Field and
\* the screen buffer as they are, and does not stop the command source: the
\* thread lives on and every valid line read next emits its command.
C2_BadLineChangesNothing ==
    [][\A l \in BadLines :
          (SourceStep /\ StdinLineOf(l)) =>
              /\ chan' = chan
              /\ metadata' = metadata
              /\ frame' = frame
              /\ stdin' = "open"
              /\ proc' = "running"
              /\ \A v \in ValidLines :
                    /\ Len(ParseLine(linebuf' \o v).send) = 1
                    /\ ParseLine(linebuf' \o v).send = ParseLine(v).send]_vars

\* the text of a line: the line without the newline that ends it
LineText(l) == IF l # <<>> /\ l[Len(l)] = "\n" THEN SubSeq(l, 1, Len(l) - 1) ELSE l
\* the lines whose first character, as they stand, is neither 'g' nor 't',
\* or whose rest does not parse as a float
BadAsWritten ==
    { l \in InputLines :
        LET t == LineText(l) IN t # <<>> /\ (t[1] \notin {"g", "t"} \/ ~RestOf(t).ok) }

\* C2, as stated: a control line whose first character is neither 'g' nor
\* 't', or whose rest does not parse as a float, emits no command.
C2_AsStated ==
    [][\A l \in BadAsWritten : (SourceStep /\ StdinLineOf(l)) => chan' = chan]_vars

\* the source has read a line whose rest does not parse, and the channel is
\* empty
C2_Witness ==
    /\ source_out = <<"Unable to parse to float">>
    /\ chan = <<>>
    /\ stdin = "open"

\* C3: a line 'g<float>' emits exactly one Goo(value), a line 't<float>'
\* exactly one Threshold(value); when the driver takes a Goo(value) off the
\* channel, goo becomes value and nothing else of the Field nor the
\* RenderOpts changes; a Threshold(value) changes the threshold only.
C3_CommandSetsItsParameter ==
    [][/\ \A l \in ValidLines :
            (SourceStep /\ StdinLineOf(l)) =>
                LET t == Trim(linebuf \o l)
                IN /\ Len(chan') = Len(chan) + 1
                   /\ t[1] = "g" => chan' = Append(chan, Goo(RestOf(t).val))
                   /\ t[1] = "t" => chan' = Append(chan, Threshold(RestOf(t).val))
                   /\ l = <<"g", "2", "\n">> => chan' = Append(chan, Goo(FromInt(2)))
                   /\ l = <<"t", "4", "0", "\n">> =>
                          chan' = Append(chan, Threshold(FromInt(40)))
       /\ (pc = "try_recv" /\ pc' # pc /\ chan # <<>>) =>
            /\ Head(chan).cmd = "Goo" =>
                    metadata' = [metadata EXCEPT !.goo = Head(chan).val]
            /\ Head(chan).cmd = "Threshold" =>
                    metadata' = [metadata EXCEPT !.threshold = Head(chan).val]
            /\ render_opts' = render_opts
            /\ chan' = Tail(chan)]_vars

\* both lines have been read and both commands consumed
C3_Witness ==
    /\ metadata.goo = FromInt(2)
    /\ metadata.threshold = FromInt(40)
    /\ chan = <<>>
    /\ pc = "wait"

\* the driver polls an empty channel whose sender is dropped
Disconnected == pc = "try_recv" /\ chan = <<>> /\ stdin = "panicked"

\* the process has ended on the disconnect
EndedOnHangUp == proc = "exited" /\ exitCode = ExitHungUp

\* C4: when the driver polls the channel and finds it disconnected, the
\* process reports the condition (prints "STDIN hung up!") and terminates
\* with an exit status that is not 0, in that very step: the Field, the
\* RenderOpts and the buffer are as they were, no render is entered, and once
\* the process has ended on the disconnect no step changes the Field, the
\* buffer or the record of renders.
C4_DisconnectIsFatal ==
    [][ /\ (proc = "running" /\ Disconnected /\ pc' # pc) =>
              /\ trace' = Append(trace, <<"println", "STDIN hung up!">>)
              /\ proc' = "exited"
              /\ exitCode' # 0
              /\ pc' = "done"
              /\ meta' = NoMeta
              /\ UNCHANGED <<metadata, render_opts, frame>>
        /\ EndedOnHangUp => UNCHANGED <<metadata, render_opts, frame, meta, trace, pc,
                                         proc, exitCode>>
      ]_vars

\* the process ended on a disconnect, its last words the report, after a
\* call of the closure that rendered nothing
C4_Witness ==
    /\ EndedOnHangUp
    /\ stdin = "panicked"
    /\ trace # <<>>
    /\ trace[Len(trace)] = <<"println", "STDIN hung up!">>
    /\ \A i \in 1..Len(trace) : trace[i][1] # "render"

\* the closure stands before the randomizing control with Space pressed
Randomize == pc = "input_update" /\ InputUpdate(event) /\ event.space

\* C5: the randomize trigger replaces the Field by one whose goo, threshold,
\* width and height are those of the Field just before it, leaves
\* render_opts.crosses as it was and renders the new Field into the buffer
\* (the call of line 227 is entered, completes, and leaves the buffer equal
\* to the image of the new Field); width and height are the construction
\* values before and after every step.
C5_RandomizeKeepsParameters ==
    [][ /\ (Randomize /\ pc' # pc) =>
              /\ metadata'.goo = metadata.goo
              /\ metadata'.threshold = metadata.threshold
              /\ metadata'.width = metadata.width
              /\ metadata'.height = metadata.height
              /\ render_opts' = render_opts
              /\ frame' = frame
              /\ trace' = Append(trace, <<"println", "randomizing">>)
              /\ pc' = "render_227"
        /\ (pc = "render_227" /\ pc' # pc) =>
              /\ pc' = "copy_227"
              /\ trace' = Append(trace, <<"render", "227">>)
              /\ UNCHANGED <<metadata, render_opts>>
        /\ (pc = "copy_227" /\ pc' # pc) =>
              /\ pc' = "toggle_check"
              /\ frame' = RenderMeta(metadata, render_opts).img.raw
              /\ UNCHANGED <<metadata, render_opts, trace>>
        /\ metadata.width = RasterDim /\ metadata.height = RasterDim
        /\ metadata'.width = RasterDim /\ metadata'.height = RasterDim
      ]_vars

\* a Field whose goo and threshold were set by commands has been randomized
\* and rendered: both values are still there
C5_Witness ==
    /\ pc = "toggle_check"
    /\ trace = << <<"println", "randomizing">>, <<"render", "227">> >>
    /\ metadata.goo = FromInt(2)
    /\ metadata.threshold = FromInt(40)
    /\ frame = RenderMeta(metadata, render_opts).img.raw

\* the closure stands before the center indicator control with C pressed
Toggle == pc = "toggle_check" /\ event.c

\* C6: the toggle trigger flips render_opts.crosses, leaves the Field as it
\* is and renders (the call of line 234 is entered, completes, and leaves the
\* buffer equal to the image of the Field under the new option); when that
\* render ends a series that switched crosses on and off again with the Field
\* untouched in between, the buffer it leaves is the buffer there was before
\* crosses was switched on.
C6_ToggleOnOffRestores ==
    [][ /\ (Toggle /\ pc' # pc) =>
              /\ render_opts'.crosses = ~render_opts.crosses
              /\ metadata' = metadata
              /\ frame' = frame
              /\ pc' = "render_234"
        /\ (pc = "render_234" /\ pc' # pc) =>
              /\ pc' = "copy_234"
              /\ trace' = Append(trace, <<"render", "234">>)
              /\ UNCHANGED <<metadata, render_opts>>
        /\ (pc = "copy_234" /\ pc' # pc) =>
              /\ proc' # "panicked"
              /\ frame' = RenderMeta(metadata, render_opts).img.raw
              /\ UNCHANGED <<metadata, render_opts>>
              /\ (~render_opts.crosses /\ overlayBase # NoFrame) => frame' = overlayBase
      ]_vars

\* crosses has been switched on and off again: the buffer is the one from
\* before, with pixels on and off and no center indicator
C6_Witness ==
    /\ pc = "wait"
    /\ ~render_opts.crosses
    /\ overlayBase # NoFrame
    /\ frame = overlayBase
    /\ \E i \in 1..Len(frame) : frame[i] = ON_PIXEL
    /\ \A i \in 1..Len(frame) : frame[i] # CROSS_PIXEL

\* the pixels of a buffer render_metaballs accepts
FramePixels == RasterDim * RasterDim

\* C7: a call of render_metaballs is all or nothing on the buffer.  Drawing
\* the base image and the center indicators leaves the buffer as it is,
\* whether or not it faults; the copy either completes, and then every pixel
\* of the buffer is the pixel of the image for the Field and the RenderOpts,
\* or fails on a buffer of the wrong length, and then the buffer is as it was
\* before the call.
C7_RenderAllOrNothing ==
    [][ /\ (pc = "render_208" /\ pc' # pc) =>
              /\ frame' = frame
              /\ proc' = "panicked" <=> ~RenderMeta(metadata, render_opts).ok
        /\ (pc = "copy_208" /\ pc' # pc) =>
              \/ /\ proc' = "running"
                 /\ Len(frame) = FramePixels
                 /\ frame' = RenderMeta(metadata, render_opts).img.raw
                 /\ Len(frame') = FramePixels
              \/ /\ proc' = "panicked"
                 /\ Len(frame) # FramePixels
                 /\ frame' = frame
      ]_vars

\* a first call completed; the second, given a buffer one pixel short,
\* failed and left that buffer as the caller made it
C7_Witness ==
    /\ proc = "panicked"
    /\ meta = NoMeta
    /\ trace = << <<"render", "208">>, <<"render", "208">> >>
    /\ firstFrame = RenderMeta(metadata, render_opts).img.raw
    /\ frame = [i \in 1..(FramePixels - 1) |-> ON_PIXEL]

\* C8: for every Field, one with a source on the edge of the raster or
\* beyond it included, drawing the center indicators completes: the call of
\* render_metaballs with crosses set ends without an out-of-bounds fault.
C8_OverlayNeverFaults == render_opts.crosses => (meta.ok /\ proc # "panicked")

\* the values rand::random::<f64>() can yield, to the precision of the model
UniformDraws == { Fin(v) : v \in 0..(FScale - 1) }

\* random_count_metaballs gives at least the minimum for every draw
CountAtLeastMinimum ==
    \A u \in UniformDraws : RandomCountMetaballs(u) >= MIN_METABALL_COUNT

\* C9: from_random gives at least MIN_METABALL_COUNT = 3 sources for every
\* draw u of [0, 1), and in every reachable state of the program, after the
\* first Field, after randomize triggers and after parameter updates, the
\* Field has at least 3 sources.
C9_AtLeastMinimumSources ==
    /\ Len(metadata.metaballs) >= MIN_METABALL_COUNT
    /\ MIN_METABALL_COUNT = 3
    /\ CountAtLeastMinimum

\* a Field generated by a randomize trigger after a parameter update, for a
\* draw that gives more than the minimum of sources
C9_Witness ==
    /\ pc = "render_227"
    /\ trace = << <<"println", "randomizing">> >>
    /\ metadata.goo = FromInt(2)
    /\ Len(metadata.metaballs) > MIN_METABALL_COUNT

\* a call of render_metaballs after the first has returned to the caller
LaterCallReturned == pc = "input_update" /\ firstFrame # NoFrame

\* C10: rendering is deterministic.  A call of render_metaballs for the
\* Field and RenderOpts of an earlier call leaves the buffer that call left,
\* pixel for pixel, whatever the buffer held when it was called and however
\* many calls came before.
C10_RenderDeterministic == LaterCallReturned => frame = firstFrame

\* a second call has returned, with center indicators drawn and pixels on
\* and off around them
C10_Witness ==
    /\ LaterCallReturned
    /\ Len(trace) = MaxCalls
    /\ render_opts.crosses
    /\ \E i \in 1..Len(frame) : frame[i] = CROSS_PIXEL
    /\ \E i \in 1..Len(frame) : frame[i] = ON_PIXEL
    /\ \E i \in 1..Len(frame) : frame[i] = OFF_PIXEL

\* a call of render_metaballs is about to start, and is in flight
RenderStarting == pc \in { CallPc(site) : site \in RenderSites }
RenderInFlight == pc \in { CopyPc(site) : site \in RenderSites }

\* C11: the Field is never mutated while a call of render_metaballs is in
\* flight.  No step taken while a call is starting or in flight changes
\* metadata, no step of the command source (a step that leaves the driver
\* where it is) changes it, and a step that does change it is a step of the
\* driver from try_recv or from the randomizing control to the start of the
\* render that follows.
C11_NoMutationDuringRender ==
    [][ /\ (RenderStarting \/ RenderInFlight) => metadata' = metadata
        /\ (pc' = pc) => metadata' = metadata
        /\ (metadata' # metadata) =>
              /\ meta = NoMeta /\ meta' = NoMeta
              /\ \/ pc = "try_recv" /\ pc' = CallPc("208")
                 \/ pc = "input_update" /\ pc' = CallPc("227")
      ]_vars

\* a call is in flight, its image not yet copied, while the command source
\* has put a command in the channel
C11_Witness ==
    /\ RenderInFlight
    /\ meta.ok
    /\ meta.img.raw # frame
    /\ chan # <<>>
    /\ source_out = <<>>
    /\ linebuf = <<>>

\* the pixel (px, py) of a buffer
PixelAt(buf, px, py) == buf[py * RasterDim + px + 1]
\* the pixels of the raster
RasterPoints == { Point(px, py) : px \in 0..(RasterDim - 1), py \in 0..(RasterDim - 1) }
\* the square of the distance between two points
SquaredDistance(p, q) == (p.x - q.x) * (p.x - q.x) + (p.y - q.y) * (p.y - q.y)
\* the call of render_metaballs has returned and the buffer holds its image
Rendered == pc = "input_update" /\ proc = "running"

\* a Field of one source of size 45 in the middle of the raster, with goo = 2
SingleCenterSource ==
    /\ metadata.goo = FromInt(2)
    /\ metadata.metaballs = << [size |-> CenterSize, location |-> Center] >>

\* C12: for a Field of a single source in the middle of the raster with
\* goo = 2, a threshold just below size/1 gives the center pixel and its four
\* neighbours at distance 1 ON and every pixel farther away OFF; a finite
\* threshold at or above size/1, the largest finite sum on the raster, gives
\* every pixel OFF but the center pixel, whose sum is +infinity and which is
\* ON for every finite threshold; every pixel is OFF only for a threshold of
\* +infinity or NaN.
C12_CenterSourceThresholds ==
    (Rendered /\ SingleCenterSource) =>
        /\ IsFin(metadata.threshold) => PixelAt(frame, Center.x, Center.y) = ON_PIXEL
        /\ metadata.threshold = FSub(CenterSize, Fin(1)) =>
              \A p \in RasterPoints :
                  PixelAt(frame, p.x, p.y) =
                      IF SquaredDistance(p, Center) <= 1 THEN ON_PIXEL ELSE OFF_PIXEL
        /\ (IsFin(metadata.threshold) /\ ~FGt(CenterSize, metadata.threshold)) =>
              \A p \in RasterPoints \ {Center} : PixelAt(frame, p.x, p.y) = OFF_PIXEL
        /\ (metadata.threshold = PosInf \/ IsNaN(metadata.threshold)) =>
              \A p \in RasterPoints : PixelAt(frame, p.x, p.y) = OFF_PIXEL

\* C12 as the specification has it: a threshold raised above size/1, the
\* sum it takes for the largest, turns every pixel of the raster OFF.
C12_AsStated ==
    (Rendered /\ SingleCenterSource /\ IsFin(metadata.threshold)
        /\ FGt(metadata.threshold, CenterSize)) =>
        \A p \in RasterPoints : PixelAt(frame, p.x, p.y) = OFF_PIXEL

\* the threshold size + 1 is above size/1: the center pixel alone is ON
C12_Witness ==
    /\ Rendered
    /\ SingleCenterSource
    /\ metadata.threshold = FAdd(CenterSize, FromInt(1))
    /\ PixelAt(frame, Center.x, Center.y) = ON_PIXEL
    /\ \A p \in RasterPoints \ {Center} : PixelAt(frame, p.x, p.y) = OFF_PIXEL

\* the closure has returned and the loop waits for the next event
IterationEnded == pc = "wait" /\ proc = "running"

\* C13: at the end of every iteration of the event loop, after any sequence
\* of commands, randomize triggers and toggles, the buffer is the image
\* render_metaballs gives for the current Field under the current
\* RenderOpts.
C13_BufferMatchesState ==
    IterationEnded =>
        /\ RenderMeta(metadata, render_opts).ok
        /\ frame = RenderMeta(metadata, render_opts).img.raw

\* an iteration that randomized and switched the center indicators on, for a
\* Field whose goo and threshold were set by commands, has ended
C13_Witness ==
    /\ IterationEnded
    /\ trace = << <<"println", "randomizing">>, <<"render", "227">>,
                  <<"println", "crosses toggled">>, <<"render", "234">> >>
    /\ render_opts.crosses
    /\ metadata.goo = FromInt(2)
    /\ metadata.threshold = FromInt(40)
    /\ \E i \in 1..Len(frame) : frame[i] = CROSS_PIXEL

\* the driver stands at the poll, and at a poll of an empty channel whose
\* sender lives
AtPoll == pc = "try_recv" /\ proc = "running"
EmptyPoll == AtPoll /\ chan = <<>> /\ stdin # "panicked"

\* C14: the poll of the channel never blocks the event loop (wherever the
\* driver stands at the poll, the poll can be taken, whatever the channel
\* holds), and a poll that finds the channel empty and connected is silent:
\* the closure goes on to the input controls with the Field, the RenderOpts
\* and the buffer as they were, no render entered and nothing printed.
C14_EmptyPollIsSilent ==
    /\ [](AtPoll => ENABLED TryRecv)
    /\ [][ (EmptyPoll /\ pc' # pc) =>
              /\ pc' = "input_update"
              /\ UNCHANGED <<metadata, render_opts, frame, meta, trace, proc, exitCode,
                             chan, event>>
          ]_vars

\* an empty poll has been taken in a call for an event that prints nothing,
\* after a command changed goo in an earlier call
C14_Witness ==
    /\ pc = "input_update"
    /\ proc = "running"
    /\ trace = <<>>
    /\ chan = <<>>
    /\ stdin = "open"
    /\ metadata.goo = FromInt(2)

\* size / distance^goo for the i-th source of the Field at the pixel p, and
\* the sum of these over the one or two sources of a Field of PixelSpec,
\* added up from 0 in source order
InfluenceAt(i, p) ==
    FDiv(metadata.metaballs[i].size,
         FPowf(Distance(metadata.metaballs[i].location, p), metadata.goo))
SumAt(p) ==
    IF Len(metadata.metaballs) = 1 THEN FAdd(Fin(0), InfluenceAt(1, p))
    ELSE FAdd(FAdd(Fin(0), InfluenceAt(1, p)), InfluenceAt(2, p))

\* C15: with crosses unset, after the render every pixel of the raster is
\* opaque red (255,0,0,255) or opaque black (0,0,0,255), and it is red
\* exactly when the sum over the sources of size / distance^goo is greater
\* than the threshold; a sum equal to the threshold gives black (the pixel
\* at distance 1 of a single source whose size is the threshold).
C15_PixelIsThresholdedSum ==
    (Rendered /\ ~render_opts.crosses /\ Len(metadata.metaballs) <= 2) =>
        /\ Len(frame) = FramePixels
        /\ ON_PIXEL = <<255, 0, 0, 255>> /\ OFF_PIXEL = <<0, 0, 0, 255>>
        /\ \A p \in RasterPoints :
              /\ PixelAt(frame, p.x, p.y) \in {ON_PIXEL, OFF_PIXEL}
              /\ PixelAt(frame, p.x, p.y) = ON_PIXEL <=> FGt(SumAt(p), metadata.threshold)
              /\ SumAt(p) = metadata.threshold => PixelAt(frame, p.x, p.y) = OFF_PIXEL
        /\ (metadata.metaballs = << [size |-> CenterSize, location |-> Center] >>
               /\ metadata.threshold = CenterSize) =>
              /\ PixelAt(frame, Center.x + 1, Center.y) = OFF_PIXEL
              /\ PixelAt(frame, Center.x, Center.y - 1) = OFF_PIXEL

\* a render with a pixel whose sum equals the threshold, black, next to a
\* pixel whose sum is greater, red
C15_Witness ==
    /\ Rendered
    /\ ~render_opts.crosses
    /\ metadata.metaballs = << [size |-> CenterSize, location |-> Center] >>
    /\ metadata.goo = INITIAL_GOO
    /\ metadata.threshold = CenterSize
    /\ SumAt(Point(Center.x + 1, Center.y)) = metadata.threshold
    /\ PixelAt(frame, Center.x + 1, Center.y) = OFF_PIXEL
    /\ PixelAt(frame, Center.x, Center.y) = ON_PIXEL

\* the sources of the Field that stand on the pixel p
SourcesAt(p) == { i \in 1..Len(metadata.metaballs) : metadata.metaballs[i].location = p }

\* C16: a pixel that coincides with a source does not make the render fail,
\* and it is classified by the ordinary comparison of its sum with the
\* threshold.  For goo > 0 the source's term at that pixel is a division by
\* zero: +infinity for size > 0, NaN for size = 0, -infinity for size < 0;
\* for goo = 0 the divisor is 0^0 = 1 and the term is size, for goo < 0 the
\* divisor is +infinity and the term is 0.  For a single source and goo > 0
\* the pixel is ON for every finite threshold when size > 0 and OFF for
\* every threshold when size = 0.
C16_CoincidentPixel ==
    /\ proc = "running"
    /\ Rendered =>
          \A p \in RasterPoints : \A i \in SourcesAt(p) :
              LET size == metadata.metaballs[i].size
                  term == InfluenceAt(i, p)
                  on == PixelAt(frame, p.x, p.y) = ON_PIXEL
              IN /\ PixelAt(frame, p.x, p.y) \in {ON_PIXEL, OFF_PIXEL}
                 /\ on <=> FGt(SumAt(p), metadata.threshold)
                 /\ metadata.goo.v > 0 =>
                       /\ size.v > 0 => term = PosInf
                       /\ size.v = 0 => term = NaN
                       /\ size.v < 0 => term = NegInf
                       /\ (Len(metadata.metaballs) = 1 /\ size.v > 0
                              /\ IsFin(metadata.threshold)) => on
                       /\ (Len(metadata.metaballs) = 1 /\ size.v = 0) => ~on
                 /\ metadata.goo.v = 0 => term = size
                 /\ metadata.goo.v < 0 => term = Fin(0)

\* C16 as the specification has it: at a pixel that coincides with a source
\* of size > 0 the division is by zero, and the pixel is ON for every finite
\* threshold (here for a Field of that source alone).
C16_AsStated ==
    (Rendered /\ Len(metadata.metaballs) = 1 /\ IsFin(metadata.threshold)) =>
        \A p \in RasterPoints : \A i \in SourcesAt(p) :
            metadata.metaballs[i].size.v > 0 =>
                /\ InfluenceAt(i, p) = PosInf
                /\ PixelAt(frame, p.x, p.y) = ON_PIXEL

\* a render with a pixel on a source of size 0, its sum NaN and the pixel
\* OFF although the threshold is 0, and a pixel on a source of size > 0, ON
C16_Witness ==
    /\ Rendered
    /\ metadata.goo = INITIAL_GOO
    /\ metadata.threshold = Fin(0)
    /\ metadata.metaballs = << [size |-> CenterSize, location |-> Center],
                                [size |-> Fin(0), location |-> Point(0, 0)] >>
    /\ SumAt(Point(0, 0)) = NaN
    /\ PixelAt(frame, 0, 0) = OFF_PIXEL
    /\ SumAt(Center) = PosInf
    /\ PixelAt(frame, Center.x, Center.y) = ON_PIXEL

\* the five pixels of the marker of a source at the location l: the pixel
\* itself and its four cardinal neighbours
MarkerOf(l) ==
    { Point(l.x, l.y), Point(l.x + 1, l.y), Point(l.x - 1, l.y),
      Point(l.x, l.y + 1), Point(l.x, l.y - 1) }
\* the pixels that belong to the marker of some source of the Field
MarkerPixels == UNION { MarkerOf(metadata.metaballs[i].location) :
                            i \in 1..Len(metadata.metaballs) }

\* C17: with crosses set, after the render the five pixels of the marker of
\* every source are opaque blue (0,0,255,255), whatever the base pass and the
\* markers of other sources gave them, and every pixel that belongs to no
\* marker has the colour the base pass gives it.
C17_MarkersOverBase ==
    (IterationEnded /\ render_opts.crosses) =>
        /\ CROSS_PIXEL = <<0, 0, 255, 255>>
        /\ \A i \in 1..Len(metadata.metaballs) :
              /\ Cardinality(MarkerOf(metadata.metaballs[i].location)) = 5
              /\ MarkerOf(metadata.metaballs[i].location) \subseteq RasterPoints
              /\ \A p \in MarkerOf(metadata.metaballs[i].location) :
                    PixelAt(frame, p.x, p.y) = CROSS_PIXEL
        /\ \A p \in RasterPoints \ MarkerPixels :
              PixelAt(frame, p.x, p.y) =
                  PixelAt(NaiveImpl(RasterDim, RasterDim, metadata).raw, p.x, p.y)

\* a render with markers that overlap, and around them pixels of the base
\* pass that are on and pixels that are off
C17_Witness ==
    /\ IterationEnded
    /\ render_opts.crosses
    /\ \E i, j \in 1..Len(metadata.metaballs) :
          /\ metadata.metaballs[i].location # metadata.metaballs[j].location
          /\ MarkerOf(metadata.metaballs[i].location)
                \cap MarkerOf(metadata.metaballs[j].location) # {}
    /\ \E p \in RasterPoints \ MarkerPixels : PixelAt(frame, p.x, p.y) = ON_PIXEL
    /\ \E p \in RasterPoints \ MarkerPixels : PixelAt(frame, p.x, p.y) = OFF_PIXEL

\* a coordinate from_random can give on a raster of the extent n: a quarter
\* of the extent at least, three quarters at most
InMiddleHalf(c, n) == n \div 4 <= c /\ c <= (3 * n) \div 4

\* (width as f64 * centered_random(0.5)) as u32 is in the middle half, and
\* its marker inside the raster, for every draw
CoordinatesInMiddleHalf ==
    \A u \in UniformDraws :
        LET c == F2U32(FMul(FromInt(RasterDim), CenteredRandom(Lit(5, 10), u)))
        IN InMiddleHalf(c, RasterDim) /\ c - 1 >= 0 /\ c + 1 < RasterDim

\* C18: in every reachable state of the program every source location has
\* width/4 <= x <= 3*width/4 and height/4 <= y <= 3*height/4, for every draw
\* of the generator; all five pixels of its marker lie inside the raster,
\* and no call of render_metaballs the driver makes, with crosses set or
\* unset, faults: the main thread never panics.
C18_SourcesInMiddleHalf ==
    /\ \A i \in 1..Len(metadata.metaballs) :
          /\ InMiddleHalf(metadata.metaballs[i].location.x, metadata.width)
          /\ InMiddleHalf(metadata.metaballs[i].location.y, metadata.height)
          /\ MarkerOf(metadata.metaballs[i].location) \subseteq RasterPoints
    /\ CoordinatesInMiddleHalf
    /\ meta.ok
    /\ proc # "panicked"

\* the render of a toggle has completed with crosses set, for a Field with a
\* source on the lowest column from_random gives and one on a higher column
C18_Witness ==
    /\ IterationEnded
    /\ render_opts.crosses
    /\ trace # <<>>
    /\ trace[Len(trace)] = <<"render", "234">>
    /\ \E i, j \in 1..Len(metadata.metaballs) :
          /\ metadata.metaballs[i].location.x = RasterDim \div 4
          /\ metadata.metaballs[j].location.x > RasterDim \div 4

\* the Field after the commands cmds are applied to md in order
RECURSIVE ApplyAll(_, _)
ApplyAll(md, cmds) ==
    IF cmds = <<>> THEN md ELSE ApplyAll(ApplyCommand(md, Head(cmds)), Tail(cmds))

\* a step of the command source that emits a command
Emits == pc' = pc /\ chan' # chan

\* the command c is the n-th of the channel
Queued(n, c) == Len(chan) >= n /\ chan[n] = c

\* the driver has taken the command c in this call of the closure
Applied(c) == pc = "render_208" /\ \E i \in RecvEntries : trace[i][2] = c

\* C19: the channel changes only by the command source putting a command at
\* its end and by the driver taking the command at its head, which it applies
\* in that step, at most once in an iteration of the loop; the goo and the
\* threshold the Field has once the commands in the channel are applied are
\* the values of the last SetGoo and the last SetThreshold emitted, and no
\* step but an emission changes them.  As long as the closure keeps being
\* called, every command in the channel, at whatever place, leads to the
\* driver taking that command.
C19_CommandsAppliedInOrder ==
    /\ [][ /\ (chan' # chan) =>
                \/ /\ Emits
                   /\ \E c \in RunCommands : chan' = Append(chan, c)
                   /\ metadata' = metadata
                \/ /\ pc = "try_recv" /\ pc' = "render_208"
                   /\ RecvEntries = {}
                   /\ chan' = Tail(chan)
                   /\ metadata' = ApplyCommand(metadata, Head(chan))
            /\ LET before == ApplyAll(metadata, chan)
                   after == ApplyAll(metadata', chan')
                   c == chan'[Len(chan')]
               IN IF Emits /\ c.cmd = "Goo"
                  THEN after.goo = c.val /\ after.threshold = before.threshold
                  ELSE IF Emits
                  THEN after.threshold = c.val /\ after.goo = before.goo
                  ELSE after.goo = before.goo /\ after.threshold = before.threshold
          ]_vars
    /\ ([]<>(pc = "try_recv")) =>
           \A c \in RunCommands : \A n \in 1..MaxChan : Queued(n, c) ~> Applied(c)

\* C19 as the specification has it: every command emitted is eventually
\* applied, so none is left in the channel when the process has ended.
C19_AsStated == proc = "exited" => chan = <<>>

\* of two commands emitted, SetGoo(2) then SetThreshold(40), the driver has
\* applied the first in this iteration; the second waits for the next
C19_Witness ==
    /\ pc = "render_208"
    /\ Cardinality(RecvEntries) = 1
    /\ metadata.goo = FromInt(2)
    /\ metadata.threshold = INITIAL_THRESHOLD
    /\ chan = << Threshold(FromInt(40)) >>

\* lo <= x <= hi, false when one of them is not a number
FBetween(lo, x, hi) ==
    /\ ~IsNaN(lo) /\ ~IsNaN(x) /\ ~IsNaN(hi)
    /\ ~FGt(lo, x)
    /\ ~FGt(x, hi)

\* the arguments tried for inner: every value from -0.5 to 1.5, and the
\* infinities
ProbeInners ==
    { Fin(v) : v \in (0 - FScale \div 2)..(FScale + FScale \div 2) } \cup {PosInf, NegInf}

\* inner <= 0 or inner >= 1
InnerOutOfRange(inner) ==
    \/ inner.k \in {"inf", "ninf"}
    \/ inner.k = "fin" /\ (inner.v <= 0 \/ inner.v >= FScale)

\* centered_random(inner) fails its assertion exactly for the arguments out
\* of range, and for the others gives a value from inner / 2 to
\* inner / 2 + inner for every draw
CenteredRandomContract ==
    \A inner \in ProbeInners :
        /\ InnerOutOfRange(inner) <=> ~CenteredRandomInnerOk(inner)
        /\ ~InnerOutOfRange(inner) =>
              \A u \in UniformDraws :
                  FBetween(FDiv(inner, FromInt(2)), CenteredRandom(inner, u),
                           FAdd(FDiv(inner, FromInt(2)), inner))

\* centered_random(0.5) is from 0.25 to 0.75 for every draw
HalfInQuarters ==
    \A u \in UniformDraws :
        FBetween(Lit(25, 100), CenteredRandom(Lit(5, 10), u), Lit(75, 100))

\* C20: centered_random(inner) fails its assertion when inner <= 0 or
\* inner >= 1 and otherwise returns a value in [inner/2, inner/2 + inner] for
\* every draw; the argument of the program's calls, 0.5, passes the
\* assertion, every result for it is in [0.25, 0.75], so every size of the
\* Field is from a quarter to three quarters of BASE_METABALL_SIZE, and the
\* main thread never panics.
C20_CenteredRandomInRange ==
    /\ CenteredRandomContract
    /\ ~InnerOutOfRange(Lit(5, 10))
    /\ HalfInQuarters
    /\ proc # "panicked"
    /\ \A i \in 1..Len(metadata.metaballs) :
          FBetween(FMul(Lit(25, 100), BASE_METABALL_SIZE), metadata.metaballs[i].size,
                   FMul(Lit(75, 100), BASE_METABALL_SIZE))

\* from_random has been called for a randomizing and has given a source of
\* the least size, a quarter of BASE_METABALL_SIZE, and a larger one
C20_Witness ==
    /\ pc = "render_227"
    /\ proc = "running"
    /\ \E i, j \in 1..Len(metadata.metaballs) :
          /\ metadata.metaballs[i].size = FMul(Lit(25, 100), BASE_METABALL_SIZE)
          /\ FGt(metadata.metaballs[j].size, metadata.metaballs[i].size)

=============================================================================
